---- MODULE Spec2Model ----
(***************************************************************************)
(* Model of main.py: a Streamlit page that posts a prompt to the Hugging   *)
(* Face inference endpoint, classifies the response in generate_image and  *)
(* keeps the last generated image in st.session_state.                     *)
(*                                                                         *)
(* One step of the model is one user interaction together with the script  *)
(* run(s) it triggers.  Text is a sequence of one-character strings, so    *)
(* that str.lower(), the substring test and the f-string of line 105 are   *)
(* computed.  An optional value (Python None or a value) is a set with no  *)
(* or one element.  guidance_scale is kept in tenths (7.5 is 75).          *)
(***************************************************************************)
EXTENDS Integers, Sequences, FiniteSets, TLC

VARIABLES api_token, prompt, model_id, num_steps, guidance_scale,
          session_state, clock, dispatches, call, page

vars == <<api_token, prompt, model_id, num_steps, guidance_scale,
          session_state, clock, dispatches, call, page>>

widgets == <<api_token, prompt, model_id, num_steps, guidance_scale>>

(* ------------------------------ bounds -------------------------------- *)

\* generate_image is invoked at most MaxDispatch times in a session.
MaxDispatch == 2

\* The wall clock advances at most MaxClock seconds in a session.
MaxClock == 1

(* ------------------------------ inputs -------------------------------- *)

Tokens == {"", "hf_demo"}

Prompts == {"", "a red ball", "a cat"}

ModelOptions ==
    <<"stabilityai/stable-diffusion-2-1", "runwayml/stable-diffusion-v1-5",
      "CompVis/stable-diffusion-v1-4", "prompthero/openjourney">>

\* The options the user switches between in a session.
ModelChoices == {ModelOptions[1], ModelOptions[4]}

StepsDefault == 50

StepsChoices == {20, StepsDefault}

GuidanceDefault == 75

GuidanceChoices == {GuidanceDefault, 200}

\* The wall clock when the session starts: one second before midnight.
SessionStart == [year |-> 2024, month |-> 1, day |-> 15, second_of_day |-> 86399]

(* ------------------------------- text --------------------------------- *)

UpperCase ==
    <<"A","B","C","D","E","F","G","H","I","J","K","L","M","N","O","P","Q","R",
      "S","T","U","V","W","X","Y","Z">>

LowerCase ==
    <<"a","b","c","d","e","f","g","h","i","j","k","l","m","n","o","p","q","r",
      "s","t","u","v","w","x","y","z">>

Digit == <<"0","1","2","3","4","5","6","7","8","9">>

\* The lower-case letter of each upper-case letter, and the reverse.
ToLower ==
    [c \in {UpperCase[i] : i \in DOMAIN UpperCase} |->
        LowerCase[CHOOSE i \in DOMAIN UpperCase : UpperCase[i] = c]]

ToUpper ==
    [c \in {LowerCase[i] : i \in DOMAIN LowerCase} |->
        UpperCase[CHOOSE i \in DOMAIN LowerCase : LowerCase[i] = c]]

lower_char(c) == IF c \in DOMAIN ToLower THEN ToLower[c] ELSE c

upper_char(c) == IF c \in DOMAIN ToUpper THEN ToUpper[c] ELSE c

\* str.lower()
lower(text) == [i \in DOMAIN text |-> lower_char(text[i])]

\* str.upper(), used to build the inputs only
upper(text) == [i \in DOMAIN text |-> upper_char(text[i])]

\* needle in text
Contains(text, needle) ==
    \E i \in 1..(Len(text) - Len(needle) + 1) :
        \A j \in 1..Len(needle) : text[i + j - 1] = needle[j]

\* the decimal digits of a non-negative integer, as in f"{n}"
RECURSIVE Str(_)
Str(n) ==
    IF n < 10 THEN <<Digit[n + 1]>>
    ELSE Str(n \div 10) \o <<Digit[(n % 10) + 1]>>

\* zero-padded two-digit and four-digit fields of strftime
Pad2(n) == Digit[(n \div 10) + 1] \o Digit[(n % 10) + 1]

Pad4(n) == Pad2(n \div 100) \o Pad2(n % 100)

Needle ==
    <<"w","a","i","t","i","n","g"," ","f","o","r"," ","t","h","e"," ","m","o",
      "d","e","l"," ","t","o"," ","b","e"," ","l","o","a","d","e","d">>

LoadingMessage ==
    <<"M","o","d","e","l"," ","i","s"," ","s","t","i","l","l"," ","l","o","a",
      "d","i","n","g","."," ","P","l","e","a","s","e"," ","w","a","i","t",
      " ","a"," ","m","o","m","e","n","t"," ","a","n","d"," ","t","r","y",
      " ","a","g","a","i","n",".">>

TokenMissingMessage ==
    <<"P","l","e","a","s","e"," ","e","n","t","e","r"," ","y","o","u","r"," ",
      "H","u","g","g","i","n","g"," ","F","a","c","e"," ","A","P","I"," ",
      "t","o","k","e","n"," ","i","n"," ","t","h","e"," ","s","i","d","e",
      "b","a","r",".">>

PromptMissingMessage ==
    <<"P","l","e","a","s","e"," ","e","n","t","e","r"," ","a"," ","p","r","o",
      "m","p","t"," ","t","o"," ","g","e","n","e","r","a","t","e"," ","a",
      "n"," ","i","m","a","g","e",".">>

ErrorPrefix == <<"E","r","r","o","r",":"," ">>

(* --------------------------- remote replies --------------------------- *)

\* The first bytes of a PNG file; "0x89" is the non-ASCII byte 0x89.
PngSignature == <<"0x89","P","N","G">>

\* The last chunk of a complete PNG file.
PngTrailer == <<"I","E","N","D">>

RedBallPng == PngSignature \o <<"r","e","d">> \o PngTrailer

\* A complete PNG whose text chunk holds the cold-start phrase.
CaptionedPng == PngSignature \o <<"t","E","X","t">> \o Needle \o PngTrailer

\* A PNG cut off before its last chunk: its header is read, its data is not.
TruncatedPng == PngSignature \o <<"r","e">>

InvalidToken == <<"I","n","v","a","l","i","d"," ","T","o","k","e","n">>

Bodies ==
    { RedBallPng, CaptionedPng, TruncatedPng,
      Needle, <<"{">> \o <<"W">> \o upper(Tail(Needle)) \o <<"}">>,
      SubSeq(Needle, 1, Len(Needle) - 1), InvalidToken }

StatusCodes == {200, 500, 503}

Responses == [status_code : StatusCodes, content : Bodies]

\* What requests.post gives: a response, or none (the call raises).
Replies == {{r} : r \in Responses} \cup {{}}

(* --------------------------- library calls ---------------------------- *)

\* response.text: the body decoded as text; a byte that is no valid text is
\* replaced by the replacement character.
Text(content) ==
    [i \in DOMAIN content |-> IF content[i] = "0x89" THEN "U+FFFD" ELSE content[i]]

\* Image.open identifies the format from the first bytes of the body.
Identified(content) ==
    /\ Len(content) >= Len(PngSignature)
    /\ SubSeq(content, 1, Len(PngSignature)) = PngSignature

\* Image.open(io.BytesIO(content)): a new image object over the bytes; the
\* pixel data is read when the image is first drawn or saved.
ImageOpen(content, id) == [id |-> id, format |-> "PNG", fp |-> content]

\* image.load(), as st.image and image.save call it: the data must be whole.
Loadable(image) ==
    /\ Len(image.fp) >= Len(PngSignature) + Len(PngTrailer)
    /\ SubSeq(image.fp, Len(image.fp) - Len(PngTrailer) + 1, Len(image.fp)) = PngTrailer

\* datetime.now().strftime('%Y%m%d_%H%M%S'), `now` seconds after SessionStart
strftime(now) ==
    LET total == SessionStart.second_of_day + now
        day == SessionStart.day + (total \div 86400)
        sod == total % 86400
    IN  Pad4(SessionStart.year) \o Pad2(SessionStart.month) \o Pad2(day) \o "_"
        \o Pad2(sod \div 3600) \o Pad2((sod \div 60) % 60) \o Pad2(sod % 60)

(* --------------------------- generate_image --------------------------- *)

ApiUrl(model) == "https://api-inference.huggingface.co/models/" \o model

Request(pr, model, token, steps, guidance) ==
    [ url |-> ApiUrl(model),
      headers |-> [Authorization |-> "Bearer " \o token],
      json |-> [inputs |-> pr,
                parameters |-> [num_inference_steps |-> steps,
                                guidance_scale |-> guidance]] ]

\* ErrorResult with the phrase looked for in the text as sent, not lowered.
ErrorResultCaseSensitive(response) ==
    IF Contains(Text(response.content), Needle)
    THEN [image |-> {}, error |-> {LoadingMessage}]
    ELSE [image |-> {},
          error |-> {ErrorPrefix \o Str(response.status_code) \o <<"\n">>
                     \o Text(response.content)}]

\* ErrorResult with the lowered text put in the message.
ErrorResultLowered(response) ==
    IF Contains(lower(Text(response.content)), Needle)
    THEN [image |-> {}, error |-> {LoadingMessage}]
    ELSE [image |-> {},
          error |-> {ErrorPrefix \o Str(response.status_code) \o <<"\n">>
                     \o lower(Text(response.content))}]

\* The two returns of the else branch, lines 102-105.
ErrorResult(response) ==
    IF Contains(lower(Text(response.content)), Needle)
    THEN [image |-> {}, error |-> {LoadingMessage}]
    ELSE [image |-> {},
          error |-> {ErrorPrefix \o Str(response.status_code) \o <<"\n">>
                     \o Text(response.content)}]

\* SuccessResult with the cold-start phrase looked for before the status.
SuccessResultPhraseFirst(response, id) ==
    IF Contains(lower(Text(response.content)), Needle)
    THEN [raised |-> "", result |-> {[image |-> {}, error |-> {LoadingMessage}]}]
    ELSE IF Identified(response.content)
    THEN [raised |-> "", result |-> {[image |-> {ImageOpen(response.content, id)},
                                      error |-> {}]}]
    ELSE [raised |-> "UnidentifiedImageError", result |-> {}]

\* The 200 branch, lines 98-100: Image.open raises on bytes it cannot identify.
SuccessResult(response, id) ==
    IF Identified(response.content)
    THEN [raised |-> "", result |-> {[image |-> {ImageOpen(response.content, id)},
                                      error |-> {}]}]
    ELSE [raised |-> "UnidentifiedImageError", result |-> {}]

\* One call: the request posted, the reply, and either the returned pair
\* (image, error) or the exception that left the function.
generate_image(pr, model, token, steps, guidance, reply, id) ==
    LET posted == Request(pr, model, token, steps, guidance)
    IN  IF reply = {}
        THEN [posted |-> {posted}, response |-> {}, raised |-> "ConnectionError",
              result |-> {}]
        ELSE LET response == CHOOSE r \in reply : TRUE
             IN  IF response.status_code = 200
                 THEN [posted |-> {posted}, response |-> reply,
                       raised |-> SuccessResult(response, id).raised,
                       result |-> SuccessResult(response, id).result]
                 ELSE [posted |-> {posted}, response |-> reply, raised |-> "",
                       result |-> {ErrorResult(response)}]

NoCall == [posted |-> {}, response |-> {}, raised |-> "", result |-> {}]

(* ---------------------------- session state --------------------------- *)

EmptySession == [k \in {} |-> {}]

\* st.session_state.<key> = value
SetItem(ss, key, value) ==
    [k \in DOMAIN ss \cup {key} |-> IF k = key THEN value ELSE ss[k]]

\* st.session_state.pop(key, None)
Pop(ss, key) == [k \in DOMAIN ss \ {key} |-> ss[k]]

(* ------------------------------ the script ---------------------------- *)

\* `not api_token or not prompt`: the disabled flag of the Generate button.
GenerateDisabled(token, pr) == token = "" \/ pr = ""

\* Dispatches without the test of the prompt.
DispatchesTokenOnly(clicked, token, pr) == clicked /\ ~(token = "")

\* The else branch of lines 109-113 is reached: generate_image is called.
Dispatches(clicked, token, pr) == clicked /\ ~(token = "") /\ ~(pr = "")

\* StoreResult that drops the retained image when no image came back.
StoreResultDiscarding(ss, result, pr) ==
    IF result.image # {}
    THEN SetItem(SetItem(ss, "last_image", CHOOSE i \in result.image : TRUE),
                 "last_prompt", pr)
    ELSE Pop(Pop(ss, "last_image"), "last_prompt")

\* StoreResult that keeps an image already retained.
StoreResultKeepFirst(ss, result, pr) ==
    IF result.image # {} /\ "last_image" \notin DOMAIN ss
    THEN SetItem(SetItem(ss, "last_image", CHOOSE i \in result.image : TRUE),
                 "last_prompt", pr)
    ELSE ss

\* StoreResult that records the prompt whether or not an image came back.
StoreResultPromptAlways(ss, result, pr) ==
    IF result.image # {}
    THEN SetItem(SetItem(ss, "last_image", CHOOSE i \in result.image : TRUE),
                 "last_prompt", pr)
    ELSE SetItem(ss, "last_prompt", pr)

\* Lines 124-127: the session state after generate_image returned `result`.
StoreResult(ss, result, pr) ==
    IF result.image # {}
    THEN SetItem(SetItem(ss, "last_image", CHOOSE i \in result.image : TRUE),
                 "last_prompt", pr)
    ELSE ss

\* The message st.error shows in lines 108-129, if any.
ErrorShown(clicked, token, pr, c) ==
    IF ~clicked THEN {}
    ELSE IF token = "" THEN {TokenMissingMessage}
    ELSE IF pr = "" THEN {PromptMissingMessage}
    ELSE IF c.result = {} THEN {}
    ELSE LET result == CHOOSE r \in c.result : TRUE
         IN  IF result.image # {} THEN {}
             ELSE {e \in result.error : Len(e) > 0}

\* Line 146: the name the download button offers.
FileName(now) == "ai_image_" \o strftime(now) \o ".png"

\* Lines 132-148: the image section; drawing an image whose data cannot be
\* read raises in st.image.
Display(ss, now) ==
    IF "last_image" \notin DOMAIN ss
    THEN [raised |-> "", image |-> {}, file_name |-> {}, new_button |-> FALSE]
    ELSE IF ~Loadable(ss.last_image)
    THEN [raised |-> "OSError", image |-> {}, file_name |-> {}, new_button |-> FALSE]
    ELSE [raised |-> "",
          image |-> {[image |-> ss.last_image, caption |-> ss.last_prompt]},
          file_name |-> {FileName(now)}, new_button |-> TRUE]

\* CreateNew that pops the image and leaves the prompt.
CreateNewImageOnly(ss) == Pop(ss, "last_image")

\* Lines 150-153: Create New Image.
CreateNew(ss) == Pop(Pop(ss, "last_image"), "last_prompt")

\* One run of the script from line 1 to its end or to the exception that
\* stops it, with the Generate button pressed or not.
ScriptRun(ss, token, pr, model, steps, guidance, clicked, reply, id, now) ==
    LET c == IF Dispatches(clicked, token, pr)
             THEN generate_image(pr, model, token, steps, guidance, reply, id)
             ELSE NoCall
        ss1 == IF c.result # {}
               THEN StoreResult(ss, CHOOSE r \in c.result : TRUE, pr)
               ELSE ss
        shown == Display(ss1, now)
    IN  IF c.raised # ""
        THEN [ session_state |-> ss, call |-> c,
               page |-> [raised |-> c.raised, error |-> {}, image |-> {},
                         file_name |-> {}, new_button |-> FALSE, tips |-> FALSE,
                         generate_disabled |-> GenerateDisabled(token, pr)] ]
        ELSE [ session_state |-> ss1, call |-> c,
               page |-> [raised |-> shown.raised,
                         error |-> ErrorShown(clicked, token, pr, c),
                         image |-> shown.image,
                         file_name |-> shown.file_name,
                         new_button |-> shown.new_button,
                         tips |-> shown.raised = "" /\ "last_image" \notin DOMAIN ss1,
                         generate_disabled |-> GenerateDisabled(token, pr)] ]

(* ------------------------------- actions ------------------------------ *)

\* A script run over session state `ss` with the given widget values.
Rerun(ss, token, pr, model, steps, guidance, clicked, reply) ==
    LET run == ScriptRun(ss, token, pr, model, steps, guidance, clicked, reply,
                         Len(dispatches) + 1, clock)
    IN  /\ api_token' = token
        /\ prompt' = pr
        /\ model_id' = model
        /\ num_steps' = steps
        /\ guidance_scale' = guidance
        /\ session_state' = run.session_state
        /\ call' = run.call
        /\ page' = run.page
        /\ clock' = clock
        /\ dispatches' = IF run.call.posted = {} THEN dispatches
                         ELSE Append(dispatches,
                                     [inputs |-> pr,
                                      image |-> \E r \in run.call.result :
                                                    r.image # {}])

Init ==
    LET run == ScriptRun(EmptySession, "", "", ModelOptions[1], StepsDefault,
                         GuidanceDefault, FALSE, {}, 1, 0)
    IN  /\ api_token = ""
        /\ prompt = ""
        /\ model_id = ModelOptions[1]
        /\ num_steps = StepsDefault
        /\ guidance_scale = GuidanceDefault
        /\ session_state = run.session_state
        /\ call = run.call
        /\ page = run.page
        /\ clock = 0
        /\ dispatches = << >>

\* The user commits a new API token; the script reruns.
EditToken(token) ==
    /\ token # api_token
    /\ Rerun(session_state, token, prompt, model_id, num_steps, guidance_scale,
             FALSE, {})

\* The user commits a new prompt; the script reruns.
EditPrompt(pr) ==
    /\ pr # prompt
    /\ Rerun(session_state, api_token, pr, model_id, num_steps, guidance_scale,
             FALSE, {})

SelectModel(model) ==
    /\ model # model_id
    /\ Rerun(session_state, api_token, prompt, model, num_steps, guidance_scale,
             FALSE, {})

SlideSteps(steps) ==
    /\ steps # num_steps
    /\ Rerun(session_state, api_token, prompt, model_id, steps, guidance_scale,
             FALSE, {})

SlideGuidance(guidance) ==
    /\ guidance # guidance_scale
    /\ Rerun(session_state, api_token, prompt, model_id, num_steps, guidance,
             FALSE, {})

\* The user presses Generate Image, which the last run drew enabled.  The
\* text field still in focus is committed by the same press, so the run may
\* see a token or a prompt other than the one the button was drawn with.
\* requests.post is reached, and answered, only when the call is made.
ClickGenerate(token, pr, reply) ==
    /\ ~page.generate_disabled
    /\ token = api_token \/ pr = prompt
    /\ ~Dispatches(TRUE, token, pr) => reply = {}
    /\ Dispatches(TRUE, token, pr) => Len(dispatches) < MaxDispatch
    /\ Rerun(session_state, token, pr, model_id, num_steps, guidance_scale,
             TRUE, reply)

\* The user presses Create New Image: the two keys are popped and st.rerun()
\* runs the script again.
ClickNew ==
    /\ page.new_button
    /\ Rerun(CreateNew(session_state), api_token, prompt, model_id, num_steps,
             guidance_scale, FALSE, {})

\* A second passes on the wall clock.
Tick ==
    /\ clock < MaxClock
    /\ clock' = clock + 1
    /\ UNCHANGED <<widgets, session_state, dispatches, call, page>>

Next ==
    \/ \E token \in Tokens : EditToken(token)
    \/ \E pr \in Prompts : EditPrompt(pr)
    \/ \E model \in ModelChoices : SelectModel(model)
    \/ \E steps \in StepsChoices : SlideSteps(steps)
    \/ \E guidance \in GuidanceChoices : SlideGuidance(guidance)
    \/ \E token \in Tokens, pr \in Prompts, reply \in Replies :
           ClickGenerate(token, pr, reply)
    \/ ClickNew
    \/ Tick

Spec == Init /\ [][Next]_vars

(* ------------------------------ properties ---------------------------- *)

\* The bodies of the inputs that are complete, decodable images.
ValidPngBodies == {RedBallPng, CaptionedPng}

\* The text holds the cold-start phrase, each letter in either case.
HasPhraseAnyCase(text) ==
    \E i \in 1..(Len(text) - Len(Needle) + 1) :
        \A j \in 1..Len(Needle) :
            text[i + j - 1] \in {Needle[j], upper_char(Needle[j])}

\* The decimal numerals of the status codes of the inputs.
Numeral(code) ==
    IF code = 200 THEN <<"2","0","0">>
    ELSE IF code = 500 THEN <<"5","0","0">>
    ELSE <<"5","0","3">>

\* The last n characters of a text, and the text before them.
Suffix(text, n) == SubSeq(text, Len(text) - n + 1, Len(text))

Before(text, n) == SubSeq(text, 1, Len(text) - n)

HasImage(ss) == "last_image" \in DOMAIN ss

\* This step ran generate_image.
Dispatched == Len(dispatches') = Len(dispatches) + 1

\* C1: when the endpoint answers 200 with valid image bytes, generate_image
\* returns an image built from exactly those bytes and no error, whatever the
\* body text, the model, the steps and the guidance scale are.
C1_ValidBytesGiveImage ==
    \A r \in call.response :
        (r.status_code = 200 /\ r.content \in ValidPngBodies) =>
            /\ call.raised = ""
            /\ Cardinality(call.result) = 1
            /\ \A res \in call.result :
                  /\ res.error = {}
                  /\ Cardinality(res.image) = 1
                  /\ \A img \in res.image : img.fp = r.content

\* A 200 reply whose image bytes hold the cold-start phrase, asked for with
\* options other than the defaults, came back as an image.
C1_Witness ==
    /\ model_id # ModelOptions[1]
    /\ num_steps # StepsDefault
    /\ guidance_scale # GuidanceDefault
    /\ \E r \in call.response : r.status_code = 200 /\ r.content = CaptionedPng
    /\ \E res \in call.result : res.image # {}

\* C2: a reply that is not 200 and whose body holds "waiting for the model to
\* be loaded" in any letter case gives no image and the one fixed message,
\* which carries neither the status code nor the body.
C2_LoadingIsRetryable ==
    \A r \in call.response :
        (r.status_code # 200 /\ HasPhraseAnyCase(Text(r.content))) =>
            /\ call.raised = ""
            /\ call.result = {[image |-> {}, error |-> {LoadingMessage}]}

\* A 500 reply with the phrase in upper case inside a longer body was
\* answered with the fixed message.
C2_Witness ==
    /\ \E r \in call.response :
          /\ r.status_code = 500
          /\ r.content # lower(r.content)
          /\ Len(r.content) > Len(Needle)
          /\ HasPhraseAnyCase(Text(r.content))
    /\ \E res \in call.result : res.error = {LoadingMessage}

\* C3: a reply that is not 200 and whose body does not hold the phrase gives
\* no image and an error carrying the status code and the body text verbatim.
C3_OtherErrorIsFatal ==
    \A r \in call.response :
        (r.status_code # 200 /\ ~HasPhraseAnyCase(Text(r.content))) =>
            /\ call.raised = ""
            /\ Cardinality(call.result) = 1
            /\ \A res \in call.result :
                  /\ res.image = {}
                  /\ Cardinality(res.error) = 1
                  /\ \A e \in res.error :
                        LET body == Text(r.content)
                        IN  /\ Len(e) > Len(body)
                            /\ Suffix(e, Len(body)) = body
                            /\ Contains(Before(e, Len(body)), Numeral(r.status_code))

\* A 503 reply with a mixed-case body without the phrase was answered with
\* the status and the body.
C3_Witness ==
    /\ \E r \in call.response : r.status_code = 503 /\ r.content = InvalidToken
    /\ \E res \in call.result : \E e \in res.error :
          Suffix(e, Len(InvalidToken)) = InvalidToken

\* C4: with an empty prompt or an empty token, generate_image is not called
\* and no request is posted, whatever the user did before.
C4_NoDispatchOnEmptyInput ==
    /\ (api_token = "" \/ prompt = "") => call = NoCall
    /\ \A rq \in call.posted :
          rq.json.inputs # "" /\ rq.headers.Authorization # "Bearer "
    /\ \A i \in DOMAIN dispatches : dispatches[i].inputs # ""

\* Generate was pressed while the prompt was empty, and nothing was posted.
C4_Witness ==
    /\ page.error = {PromptMissingMessage}
    /\ prompt = ""
    /\ api_token # ""
    /\ call.posted = {}

\* C5 as stated: a retained result, shown on the page, is dropped by Create
\* New Image, and once a new dispatch has started it is no longer held,
\* whether that dispatch returns an image or an error.
C5_DiscardedOnNewRequest ==
    [][ (HasImage(session_state) /\ page.image # {}) =>
          /\ ClickNew => ~HasImage(session_state')
          /\ (Dispatched /\ call'.result # {}) =>
                \/ ~HasImage(session_state')
                \/ session_state'.last_image # session_state.last_image ]_vars

\* C5 amended: a retained result is dropped by Create New Image and replaced
\* by the image of a new dispatch that returns one; a new dispatch that
\* returns no image leaves it held.
C5_DiscardedOnClearReplacedOnSuccess ==
    [][ HasImage(session_state) =>
          /\ ClickNew => DOMAIN session_state' = {}
          /\ (Dispatched /\ dispatches'[Len(dispatches')].image) =>
                /\ HasImage(session_state')
                /\ session_state'.last_image # session_state.last_image
                /\ \E res \in call'.result : session_state'.last_image \in res.image
          /\ (Dispatched /\ ~dispatches'[Len(dispatches')].image) =>
                session_state' = session_state ]_vars

\* A dispatch answered with the cold-start message has just ended while an
\* image of an earlier dispatch is retained.
C5_Witness ==
    /\ HasImage(session_state)
    /\ call.posted # {}
    /\ \E res \in call.result : res.error = {LoadingMessage}
    /\ session_state.last_image.id < Len(dispatches)

\* The bodies of the inputs that are text and no image at all.
TextBodies == {b \in Bodies : ~Identified(b)}

\* C6 as stated: a 200 reply whose body is no decodable image gives an error
\* result with no image, which the page shows, and the run goes on.
C6_UndecodableBodyIsFatalError ==
    \A r \in call.response :
        (r.status_code = 200 /\ r.content \in TextBodies) =>
            /\ call.raised = ""
            /\ page.raised = ""
            /\ \E res \in call.result :
                  res.image = {} /\ res.error # {} /\ page.error = res.error

\* C7: at most one result is retained: the holder is empty or holds one image,
\* that of the most recent dispatch that returned one; a later image replaces
\* the earlier one, which no key of the session state holds any more.
C7_HolderIsLatestImage ==
    /\ DOMAIN session_state \subseteq {"last_image", "last_prompt"}
    /\ HasImage(session_state) =>
          LET id == session_state.last_image.id
          IN  /\ id \in DOMAIN dispatches
              /\ dispatches[id].image
              /\ \A j \in DOMAIN dispatches : j > id => ~dispatches[j].image

\* The image of a second dispatch is retained after the first dispatch had
\* returned an image too.
C7_Witness ==
    /\ HasImage(session_state)
    /\ session_state.last_image.id = 2
    /\ dispatches[1].image

\* C8 as stated: the name offered for a retained image carries the time the
\* image was generated, so it is the same on every redraw that shows that image.
C8_FileNameKeepsGenerationTime ==
    [][ ( /\ HasImage(session_state) /\ HasImage(session_state')
          /\ session_state'.last_image = session_state.last_image
          /\ page.file_name # {} /\ page'.file_name # {} )
        => page'.file_name = page.file_name ]_vars

\* C9: a dispatch that ends in the cold-start message or in an error message
\* leaves last_image and last_prompt as they were, absent included, and an
\* image shown before is shown again, with the error.
C9_FailedDispatchKeepsHolder ==
    [][ (Dispatched /\ \E res \in call'.result : res.image = {}) =>
          /\ session_state' = session_state
          /\ \A res \in call'.result : page'.error = res.error
          /\ page.image # {} => page'.image = page.image ]_vars

\* An error message is shown next to an image retained from an earlier
\* dispatch, right after a dispatch that was answered with a status and body.
C9_Witness ==
    /\ call.posted # {}
    /\ \E res \in call.result :
          res.image = {} /\ res.error # {LoadingMessage} /\ page.error = res.error
    /\ HasImage(session_state)
    /\ \E shown \in page.image : shown.image = session_state.last_image

\* C10: last_image and last_prompt are both present or both absent, and when
\* present last_prompt is the prompt of the request that produced last_image.
C10_PromptBelongsToImage ==
    /\ HasImage(session_state) <=> "last_prompt" \in DOMAIN session_state
    /\ HasImage(session_state) =>
          /\ session_state.last_image.id \in DOMAIN dispatches
          /\ session_state.last_prompt
                = dispatches[session_state.last_image.id].inputs

\* The retained prompt differs from the prompt field and from the prompt of
\* a later dispatch that returned no image.
C10_Witness ==
    /\ HasImage(session_state)
    /\ prompt # session_state.last_prompt
    /\ session_state.last_image.id < Len(dispatches)
    /\ dispatches[Len(dispatches)].inputs # session_state.last_prompt
    /\ ~dispatches[Len(dispatches)].image
====
